---- MODULE Spec2Model ----
(***************************************************************************)
(* Signal (src/index.js): a signable consensus message "sender > action >  *)
(* epoch > block" with an open parameter store, a location resolver and a  *)
(* comparator.  The base class (Torrent / Message) and the data sources    *)
(* (web3, clock) are collaborators; their behaviour is taken from the      *)
(* interface description and is nondeterministic where it is an input.     *)
(***************************************************************************)
EXTENDS Integers, Sequences, FiniteSets

(***************************************************************************)
(* Bounds of the model.                                                    *)
(***************************************************************************)
MaxBlock == 2        \* block numbers a data source reports: 1..MaxBlock
MaxTime == 2         \* timestamps a data source reports: 1..MaxTime
MaxInflight == 2     \* async locate calls suspended at the same time
MaxFieldLen == 2     \* length of the strings tried as claim fields
MaxSegments == 5     \* segments of the consensus strings tried as payloads

(***************************************************************************)
(* JavaScript values: undefined, numbers (NaN apart), strings as sequences *)
(* of characters.                                                          *)
(***************************************************************************)
Undefined == [t |-> "undefined", n |-> 0, s |-> <<>>]
NaN == [t |-> "NaN", n |-> 0, s |-> <<>>]
Num(i) == [t |-> "number", n |-> i, s |-> <<>>]
Str(cs) == [t |-> "string", n |-> 0, s |-> cs]

\* typeof v
TypeOf(v) == IF v.t = "NaN" THEN "number" ELSE v.t

IsUndefined(v) == TypeOf(v) = "undefined"

\* a === b
StrictEq(a, b) == a.t # "NaN" /\ b.t # "NaN" /\ a = b

\* if (v)
Truthy(v) ==
  CASE v.t = "undefined" -> FALSE
    [] v.t = "NaN" -> FALSE
    [] v.t = "number" -> v.n # 0
    [] OTHER -> v.s # <<>>

DigitChars == <<"0", "1", "2", "3", "4", "5", "6", "7", "8", "9">>

IsDigit(c) == \E d \in 1..10 : DigitChars[d] = c

DigitVal(c) == (CHOOSE d \in 1..10 : DigitChars[d] = c) - 1

RECURSIVE Digits(_)
Digits(i) ==
  IF i < 10 THEN <<DigitChars[i + 1]>>
  ELSE Digits(i \div 10) \o <<DigitChars[(i % 10) + 1]>>

\* `${v}`
ToString(v) ==
  CASE v.t = "undefined" -> <<"u", "n", "d", "e", "f", "i", "n", "e", "d">>
    [] v.t = "NaN" -> <<"N", "a", "N">>
    [] v.t = "number" -> IF v.n < 0 THEN <<"-">> \o Digits(-v.n) ELSE Digits(v.n)
    [] OTHER -> v.s

RECURSIVE SkipSpaces(_)
SkipSpaces(cs) ==
  IF cs # <<>> /\ Head(cs) = " " THEN SkipSpaces(Tail(cs)) ELSE cs

RECURSIVE DigitPrefix(_, _)
DigitPrefix(cs, acc) ==
  IF cs # <<>> /\ IsDigit(Head(cs))
  THEN DigitPrefix(Tail(cs), acc * 10 + DigitVal(Head(cs)))
  ELSE acc

\* parseInt(v)
ParseInt(v) ==
  CASE v.t = "number" -> v
    [] v.t = "string" ->
         LET cs == SkipSpaces(v.s) IN
         IF cs # <<>> /\ IsDigit(Head(cs)) THEN Num(DigitPrefix(cs, 0)) ELSE NaN
    [] OTHER -> NaN

(***************************************************************************)
(* Objects: a mapping from the keys present to their values.               *)
(***************************************************************************)
NoParams == [k \in {} |-> Undefined]

\* obj[k]
Get(obj, k) == IF k \in DOMAIN obj THEN obj[k] ELSE Undefined

\* Object.keys(obj)
Keys(obj) == DOMAIN obj

\* { ...p, ...q }
Merge(p, q) ==
  [k \in (DOMAIN p) \cup (DOMAIN q) |-> IF k \in DOMAIN q THEN q[k] ELSE p[k]]

One(k, v) == [x \in {k} |-> v]

(***************************************************************************)
(* The state: the signal operated on, further signals (a copy rebuilt from *)
(* a payload, the other arguments of compare), the async locate calls in   *)
(* flight, the last completed operation, and the comparisons made.         *)
(***************************************************************************)
VARIABLES signal, peers, calls, outcome, order, during

vars == <<signal, peers, calls, outcome, order, during>>

Blank ==
  [sender |-> Undefined, action |-> Undefined, epoch |-> Undefined,
   block |-> Undefined, consensus |-> Undefined, params |-> NoParams, uuid |-> 0]

\* super(payload): the base class adopts the payload's signed and unsigned maps
Torrent(payload, id) ==
  [Blank EXCEPT !.consensus = payload.consensus, !.params = payload.params,
                !.uuid = id]

Separator == <<" ", ">", " ">>

RequiredParams == {"sender", "action", "epoch", "block"}

Coords == {"blockNumber", "timestamp", "world"}

\* the loop variable of the required-parameter check holds the NAME of the field
ParamName(name) == [t |-> "string", n |-> 0, s |-> <<name>>]

\* for (let param of [...]) if (typeof param === 'undefined') throw
MissingRequired(signalParams) ==
  \E param \in RequiredParams : TypeOf(ParamName(param)) = "undefined"

\* variant: action and epoch change places in the string
ComposeSwapped(sender, action, epoch, block) ==
  ToString(sender) \o Separator \o ToString(epoch) \o Separator
    \o ToString(action) \o Separator \o ToString(block)

\* `${sender} > ${action} > ${epoch} > ${block}`
Compose(sender, action, epoch, block) ==
  ToString(sender) \o Separator \o ToString(action) \o Separator
    \o ToString(epoch) \o Separator \o ToString(block)

\* the first index at which sep occurs in cs, 0 when it does not
IndexOf(cs, sep) ==
  LET hits == {i \in 1..(Len(cs) - Len(sep) + 1) :
                 SubSeq(cs, i, i + Len(sep) - 1) = sep}
  IN IF hits = {} THEN 0 ELSE CHOOSE i \in hits : \A j \in hits : i <= j

\* cs.split(sep)
RECURSIVE Split(_, _)
Split(cs, sep) ==
  LET i == IndexOf(cs, sep) IN
  IF i = 0 THEN <<cs>>
  ELSE <<SubSeq(cs, 1, i - 1)>> \o Split(SubSeq(cs, i + Len(sep), Len(cs)), sep)

\* sp[i] of a JavaScript array (0-based)
At(sp, i) == IF i + 1 <= Len(sp) THEN Str(sp[i + 1]) ELSE Undefined

\* the optional temporal and world params of the claim
SetCoords(params, signalParams) ==
  Merge(params,
        [c \in {x \in Coords : ~IsUndefined(signalParams[x])} |-> signalParams[c]])

NoClaim ==
  [given |-> FALSE, sender |-> Undefined, action |-> Undefined, epoch |-> Undefined,
   block |-> Undefined, blockNumber |-> Undefined, timestamp |-> Undefined,
   world |-> Undefined]

Claim(sender, action, epoch, block) ==
  [NoClaim EXCEPT !.given = TRUE, !.sender = sender, !.action = action,
                  !.epoch = epoch, !.block = block]

\* new Signal(payload, signalParams)
Constructor(payload, signalParams, id) ==
  LET base == Torrent(payload, id) IN
  IF signalParams.given
  THEN IF MissingRequired(signalParams)
       THEN [status |-> "MissingRequiredParam", signal |-> Blank]
       ELSE [status |-> "ok",
             signal |->
               [base EXCEPT
                  !.sender = signalParams.sender,
                  !.action = signalParams.action,
                  !.epoch = signalParams.epoch,
                  !.block = signalParams.block,
                  !.params = SetCoords(base.params, signalParams),
                  !.consensus = Str(Compose(signalParams.sender, signalParams.action,
                                            signalParams.epoch, signalParams.block))]]
  ELSE IF Truthy(base.consensus)
  THEN LET sp == Split(base.consensus.s, Separator) IN
       [status |-> "ok",
        signal |-> [base EXCEPT !.sender = At(sp, 0), !.action = At(sp, 1),
                                !.epoch = At(sp, 2), !.block = At(sp, 3)]]
  ELSE [status |-> "ok", signal |-> base]

(***************************************************************************)
(* Parameter store.                                                        *)
(***************************************************************************)
\* addParams(obj) of the base class: merge, overwriting keys of the same name
addParams(params, obj) == Merge(params, obj)

\* variant: only the timestamp is removed
clearLocationTimestampOnly(params) ==
  [key \in {k \in Keys(params) : k # "timestamp"} |-> params[key]]

\* variant: the store is reset instead of filtered
clearLocationReset(params) == NoParams

clearLocation(params) ==
  [key \in {k \in Keys(params) : k # "timestamp" /\ k # "blockNumber"} |-> params[key]]

standardParams(params) ==
  [k \in {"sig", "alias", "world", "timestamp", "blockNumber"} |-> Get(params, k)]

\* variant: the filter on the standard keys is lost
customParamsUnfiltered(params) == params

customParams(params) ==
  LET standardKeys == Keys(standardParams(params)) IN
  [key \in {k \in Keys(params) : k \notin standardKeys} |-> params[key]]

\* the identifiers in scope inside clearCustomParams
ClearCustomScope == {"keep", "standardKeys", "key"}

\* clearCustomParams(): the loop body reads the identifier standardParams
clearCustomParams(params) ==
  LET standardKeys == Keys(standardParams(params)) IN
  IF Keys(params) # {} /\ "standardParams" \notin ClearCustomScope
  THEN [status |-> "ReferenceError", params |-> params]
  ELSE [status |-> "ok",
        params |-> [key \in {k \in Keys(params) : k \in standardKeys} |-> params[key]]]

\* get blockNumber ()
blockNumber(s) ==
  IF IsUndefined(Get(s.params, "blockNumber")) THEN Undefined
  ELSE ParseInt(Get(s.params, "blockNumber"))

\* get timestamp ()
timestamp(s) ==
  IF IsUndefined(Get(s.params, "timestamp")) THEN Undefined
  ELSE ParseInt(Get(s.params, "timestamp"))

\* variant: located only when both are defined
locatedBoth(s) == ~IsUndefined(timestamp(s)) /\ ~IsUndefined(blockNumber(s))

\* get located ()
located(s) == ~IsUndefined(timestamp(s)) \/ ~IsUndefined(blockNumber(s))

\* variant: the whole parameter store is serialized
payloadWhole(s) == [consensus |-> s.consensus, params |-> s.params]

\* get payload ()
payload(s) ==
  [consensus |-> s.consensus,
   params |-> [k \in {"sig", "alias", "world", "timestamp", "blockNumber"} |->
                 Get(s.params, k)]]

(***************************************************************************)
(* Location resolver.                                                      *)
(***************************************************************************)
RetNone == [kind |-> "none", blockNumber |-> Undefined, timestamp |-> Undefined]

RetThis == [kind |-> "this", blockNumber |-> Undefined, timestamp |-> Undefined]

RetParams(p) ==
  [kind |-> "params", blockNumber |-> p.blockNumber, timestamp |-> p.timestamp]

\* what earth.web3.eth.getBlock(hash) resolves to: block info, or nothing
NoBlock == [found |-> FALSE, blockNumber |-> Undefined, timestamp |-> Undefined]

ChainInfos ==
  {NoBlock} \cup
  {[found |-> TRUE, blockNumber |-> Num(b), timestamp |-> Num(t)] :
     b \in 1..MaxBlock, t \in 1..MaxTime}

\* what earth.clock.readHash(hash, confirm) returns: block info, or nothing
NoHash == [found |-> FALSE, number |-> Undefined, timestamp |-> Undefined]

ClockInfos ==
  {NoHash} \cup
  {[found |-> TRUE, number |-> Num(b), timestamp |-> Num(t)] :
     b \in 1..MaxBlock, t \in 1..MaxTime}

\* variant: the anchor is checked before the collaborator
LocateChecksAnchorFirst(s, earth) ==
  IF IsUndefined(s.block) THEN "MissingAnchor"
  ELSE IF ~earth THEN "MissingCollaborator"
  ELSE "ok"

\* the input checks of locate and locateSync, in the order of the code
LocateChecks(s, earth) ==
  IF ~earth THEN "MissingCollaborator"
  ELSE IF IsUndefined(s.block) THEN "MissingAnchor"
  ELSE "ok"

\* variant: the found branch returns the signal instead of the pair
locateResumeReturnsThis(params, info) ==
  IF info.found
  THEN LET p == [blockNumber |-> info.blockNumber, timestamp |-> info.timestamp] IN
       [params |-> addParams(params, p), ret |-> RetThis]
  ELSE [params |-> clearLocation(params), ret |-> RetThis]

\* variant: a found pair replaces the store instead of being merged into it
locateResumeReplace(params, info) ==
  IF info.found
  THEN LET p == [blockNumber |-> info.blockNumber, timestamp |-> info.timestamp] IN
       [params |-> p, ret |-> RetParams(p)]
  ELSE [params |-> clearLocation(params), ret |-> RetThis]

\* variant: a found pair is returned but not written to the store
locateResumeUnwritten(params, info) ==
  IF info.found
  THEN LET p == [blockNumber |-> info.blockNumber, timestamp |-> info.timestamp] IN
       [params |-> params, ret |-> RetParams(p)]
  ELSE [params |-> clearLocation(params), ret |-> RetThis]

\* locate, from the point where the awaited getBlock has resolved to info
locateResume(params, info) ==
  IF info.found
  THEN LET p == [blockNumber |-> info.blockNumber, timestamp |-> info.timestamp] IN
       [params |-> addParams(params, p), ret |-> RetParams(p)]
  ELSE [params |-> clearLocation(params), ret |-> RetThis]

\* variant: a location already held is dropped as stale and not written again
locateSyncApplyStale(params, info) ==
  IF info.found /\ IsUndefined(Get(params, "blockNumber"))
  THEN LET p == [blockNumber |-> info.number, timestamp |-> info.timestamp] IN
       [params |-> addParams(params, p), ret |-> RetParams(p)]
  ELSE IF info.found
  THEN [params |-> clearLocation(params),
        ret |-> RetParams([blockNumber |-> info.number, timestamp |-> info.timestamp])]
  ELSE [params |-> clearLocation(params), ret |-> RetThis]

\* locateSync, from the point where readHash has returned info
locateSyncApply(params, info) ==
  IF info.found
  THEN LET p == [blockNumber |-> info.number, timestamp |-> info.timestamp] IN
       [params |-> addParams(params, p), ret |-> RetParams(p)]
  ELSE [params |-> clearLocation(params), ret |-> RetThis]

(***************************************************************************)
(* The last completed operation: its name, how it ended, how many times it *)
(* called its collaborator, the collaborator's answer, what it returned    *)
(* and the parameter store it started its write from.  With it goes the    *)
(* answer of the last resolution call that got one (resolved), kept while  *)
(* resolution calls are the only operations applied since: a resolution    *)
(* call that raises leaves it, any other operation makes it "other".       *)
(***************************************************************************)
Done(op, status, invoked, answer, ret, pre) ==
  [op |-> op, status |-> status, invoked |-> invoked, answer |-> answer,
   ret |-> ret, pre |-> pre,
   resolved |-> IF op \in {"locate", "locateSync"}
                THEN IF status = "ok" THEN answer ELSE outcome.resolved
                ELSE "other"]

NoOutcome ==
  [op |-> "none", status |-> "ok", invoked |-> 0, answer |-> "none",
   ret |-> RetNone, pre |-> NoParams, resolved |-> "none"]

(***************************************************************************)
(* What other operations wrote to the store while an async locate was      *)
(* suspended: the parameters other than timestamp and blockNumber with the *)
(* values last written, and whether the location was written.  `during`    *)
(* holds one such record for each suspended call (open) and that of the    *)
(* call that resumed last (closed).                                        *)
(***************************************************************************)
Unwritten == [others |-> NoParams, location |-> FALSE]

NoOverlap == [open |-> <<>>, closed |-> Unwritten]

\* a record after another operation merged obj into the store
Noted(w, obj) ==
  LET T == {"timestamp", "blockNumber"} IN
  [others |-> Merge(w.others, [k \in Keys(obj) \ T |-> obj[k]]),
   location |-> w.location \/ Keys(obj) \cap T # {}]

\* the records of the suspended calls after another operation merged obj
Merged(ws, obj) == [i \in 1..Len(ws) |-> Noted(ws[i], obj)]

\* the records of the suspended calls after another operation wrote the location
Relocated(ws) == [i \in 1..Len(ws) |-> [ws[i] EXCEPT !.location = TRUE]]

NotCompared == [kind |-> "none", value |-> Undefined]

NoOrder == [p \in {} |-> NotCompared]

Answer(info) == IF info.found THEN "found" ELSE "notfound"

(***************************************************************************)
(* Life of one signal: parameter store and location resolver.              *)
(***************************************************************************)
NoPayload == [consensus |-> Undefined, params |-> NoParams]

\* the objects callers pass to addParams
Partials ==
  {One("memo", Str(<<"x">>)), One("memo", Str(<<"y">>)),
   One("timestamp", Num(1)), One("timestamp", Undefined),
   One("blockNumber", Str(<<"2">>)),
   One("world", Str(<<"w">>)), One("alias", Str(<<"a">>))}

\* the constructions a life starts from
Births ==
  {<<NoPayload, Claim(Str(<<"a">>), Str(<<"v">>), Num(3), Str(<<"k">>))>>,
   <<NoPayload,
     [Claim(Str(<<"a">>), Str(<<"v">>), Str(<<"3">>), Undefined)
        EXCEPT !.timestamp = Num(1)]>>,
   <<[consensus |-> Str(Compose(Str(<<"a">>), Str(<<"v">>), Num(3), Str(<<"k">>))),
      params |-> [sig |-> Str(<<"s">>), memo |-> Str(<<"x">>),
                  blockNumber |-> Num(1), timestamp |-> Num(1)]],
     NoClaim>>}

Init ==
  /\ \E b \in Births : signal = Constructor(b[1], b[2], 1).signal
  /\ peers = <<>>
  /\ calls = <<>>
  /\ outcome = NoOutcome
  /\ order = NoOrder
  /\ during = NoOverlap

AddParams(obj) ==
  /\ signal' = [signal EXCEPT !.params = addParams(@, obj)]
  /\ outcome' = Done("addParams", "ok", 0, "none", RetNone, signal.params)
  /\ UNCHANGED <<peers, calls, order>>

\* variant: the filtered object is assigned to the signed map
ClearLocationIntoSigned ==
  /\ signal' = [signal EXCEPT !.consensus = Get(clearLocation(signal.params), "@")]
  /\ outcome' = Done("clearLocation", "ok", 0, "none", RetNone, signal.params)
  /\ UNCHANGED <<peers, calls, order>>

ClearLocation ==
  /\ signal' = [signal EXCEPT !.params = clearLocation(@)]
  /\ outcome' = Done("clearLocation", "ok", 0, "none", RetNone, signal.params)
  /\ UNCHANGED <<peers, calls, order>>

ClearCustomParams ==
  LET r == clearCustomParams(signal.params) IN
  /\ signal' = [signal EXCEPT !.params = r.params]
  /\ outcome' = Done("clearCustomParams", r.status, 0, "none", RetNone, signal.params)
  /\ UNCHANGED <<peers, calls, order>>

LocateSync(earth, info) ==
  LET check == LocateChecks(signal, earth)
      r == locateSyncApply(signal.params, info)
  IN
  /\ IF check # "ok"
     THEN /\ outcome' = Done("locateSync", check, 0, "none", RetNone, signal.params)
          /\ UNCHANGED signal
     ELSE /\ signal' = [signal EXCEPT !.params = r.params]
          /\ outcome' = Done("locateSync", "ok", 1, Answer(info), r.ret, signal.params)
  /\ UNCHANGED <<peers, calls, order>>

\* locate up to its await: the checks, then the one getBlock request
Locate(earth) ==
  LET check == LocateChecks(signal, earth) IN
  /\ IF check # "ok"
     THEN /\ outcome' = Done("locate", check, 0, "none", RetNone, signal.params)
          /\ UNCHANGED calls
     ELSE /\ Len(calls) < MaxInflight
          /\ calls' = Append(calls, [block |-> signal.block, invoked |-> 1])
          /\ UNCHANGED outcome
  /\ UNCHANGED <<signal, peers, order>>

\* the i-th suspended locate resumes with the answer of getBlock
LocateResume(i, info) ==
  LET r == locateResume(signal.params, info) IN
  /\ i \in 1..Len(calls)
  /\ signal' = [signal EXCEPT !.params = r.params]
  /\ calls' = SubSeq(calls, 1, i - 1) \o SubSeq(calls, i + 1, Len(calls))
  /\ outcome' = Done("locate", "ok", calls[i].invoked, Answer(info), r.ret,
                     signal.params)
  /\ UNCHANGED <<peers, order>>

Next ==
  \/ \E obj \in Partials : AddParams(obj) /\ UNCHANGED during
  \/ ClearLocation /\ UNCHANGED during
  \/ ClearCustomParams /\ UNCHANGED during
  \/ \E earth \in BOOLEAN, info \in ClockInfos :
       LocateSync(earth, info) /\ UNCHANGED during
  \/ \E earth \in BOOLEAN : Locate(earth) /\ UNCHANGED during
  \/ \E i \in 1..MaxInflight, info \in ChainInfos :
       LocateResume(i, info) /\ UNCHANGED during

Spec == Init /\ [][Next]_vars

(***************************************************************************)
(* Properties of the parameter store and the location resolver (Spec).     *)
(***************************************************************************)
Resolutions == {"locate", "locateSync"}

StandardKeys == {"sig", "alias", "world", "timestamp", "blockNumber"}

\* C1: after a locate or locateSync that completed without raising (found or
\* not found, whatever was stored before), blockNumber and timestamp are
\* either both defined or both undefined.
LocationConsistent ==
  (outcome.op \in Resolutions /\ outcome.status = "ok")
    => (IsUndefined(blockNumber(signal)) <=> IsUndefined(timestamp(signal)))

\* a resolution got "not found" on a signal that had only blockNumber set
LocationConsistentWitness ==
  /\ outcome.op \in Resolutions
  /\ outcome.status = "ok"
  /\ outcome.answer = "notfound"
  /\ ~IsUndefined(Get(outcome.pre, "blockNumber"))
  /\ IsUndefined(Get(outcome.pre, "timestamp"))
  /\ IsUndefined(blockNumber(signal))

\* C2: after a resolution call answered "not found" the signal is not located
\* and every parameter other than timestamp and blockNumber is present with
\* the value it had when the call wrote the store.
NotFoundClearsCleanly ==
  (outcome.op \in Resolutions /\ outcome.status = "ok" /\ outcome.answer = "notfound")
    => /\ ~located(signal)
       /\ Keys(signal.params) \ {"timestamp", "blockNumber"}
            = Keys(outcome.pre) \ {"timestamp", "blockNumber"}
       /\ \A k \in Keys(signal.params) \ {"timestamp", "blockNumber"} :
            signal.params[k] = outcome.pre[k]

\* "not found" on a located signal that carries a custom and a standard key
NotFoundClearsCleanlyWitness ==
  /\ outcome.op \in Resolutions
  /\ outcome.status = "ok"
  /\ outcome.answer = "notfound"
  /\ ~IsUndefined(Get(outcome.pre, "timestamp"))
  /\ ~IsUndefined(Get(outcome.pre, "blockNumber"))
  /\ "memo" \in Keys(signal.params)
  /\ "world" \in Keys(signal.params)

\* C5: clearCustomParams completes and leaves exactly the standard keys that
\* were present, with their values, and no custom key.
ClearCustomKeepsStandard ==
  outcome.op = "clearCustomParams"
    => /\ outcome.status = "ok"
       /\ signal.params =
            [k \in Keys(outcome.pre) \cap StandardKeys |-> outcome.pre[k]]

\* C6 as stated: the keys of standardParams and customParams are disjoint and
\* their union is exactly the set of keys present in the store.
PartitionOfStoredKeys ==
  /\ Keys(standardParams(signal.params)) \cap Keys(customParams(signal.params)) = {}
  /\ Keys(standardParams(signal.params)) \cup Keys(customParams(signal.params))
       = Keys(signal.params)

\* C6 as amended: the two key sets are disjoint, every stored key is in one of
\* them, and their union is the stored keys together with the five reserved
\* keys, which standardParams lists whether they are stored or not.
PartitionWithReservedKeys ==
  /\ Keys(standardParams(signal.params)) \cap Keys(customParams(signal.params)) = {}
  /\ Keys(standardParams(signal.params)) \cup Keys(customParams(signal.params))
       = Keys(signal.params) \cup StandardKeys
  /\ Keys(customParams(signal.params)) = Keys(signal.params) \ StandardKeys
  /\ \A k \in Keys(customParams(signal.params)) :
       customParams(signal.params)[k] = signal.params[k]
  /\ \A k \in StandardKeys :
       standardParams(signal.params)[k] = Get(signal.params, k)

\* a store holding a custom key and lacking a reserved one, after an operation
PartitionWithReservedKeysWitness ==
  /\ outcome.op \in {"addParams", "locate", "locateSync", "clearLocation"}
  /\ "memo" \in Keys(signal.params)
  /\ "timestamp" \in Keys(signal.params)
  /\ "world" \notin Keys(signal.params)

(***************************************************************************)
(* Verification.  The base class verifies the signature with the world as  *)
(* domain separator; it raises when the signature is invalid and otherwise *)
(* records the recovered signer, which authorAlias reads.                  *)
(***************************************************************************)
\* what super.verify / super.verifySync find: an invalid signature, or the signer
Verdicts ==
  {[valid |-> FALSE, alias |-> Undefined],
   [valid |-> TRUE, alias |-> Str(<<"a">>)],
   [valid |-> TRUE, alias |-> Str(<<"b">>)]}

\* get authorAlias () of the base class
authorAlias(s) == Get(s.params, "alias")

\* super.verify(earth, domain): raises, or records the recovered signer
superVerify(s, verdict) ==
  IF verdict.valid
  THEN [status |-> "ok",
        signal |-> [s EXCEPT !.params = addParams(@, One("alias", verdict.alias))]]
  ELSE [status |-> "VerifyFailed", signal |-> s]

\* variant: the declared sender is not compared with the recovered signer
verifyUnchecked(s, verdict) ==
  IF IsUndefined(s.sender)
  THEN [status |-> "MissingSender", invoked |-> 0, signal |-> s, ret |-> RetNone]
  ELSE LET v == superVerify(s, verdict) IN
       IF v.status # "ok"
       THEN [status |-> v.status, invoked |-> 1, signal |-> v.signal, ret |-> RetNone]
       ELSE [status |-> "ok", invoked |-> 1, signal |-> v.signal, ret |-> RetThis]

\* async verify (earth); it suspends only inside super.verify
verify(s, verdict) ==
  IF IsUndefined(s.sender)
  THEN [status |-> "MissingSender", invoked |-> 0, signal |-> s, ret |-> RetNone]
  ELSE LET v == superVerify(s, verdict) IN
       IF v.status # "ok"
       THEN [status |-> v.status, invoked |-> 1, signal |-> v.signal, ret |-> RetNone]
       ELSE IF ~StrictEq(v.signal.sender, authorAlias(v.signal))
       THEN [status |-> "SenderMismatch", invoked |-> 1, signal |-> v.signal,
             ret |-> RetNone]
       ELSE [status |-> "ok", invoked |-> 1, signal |-> v.signal, ret |-> RetThis]

\* verifySync (earth, blockNumber)
verifySync(s, verdict) ==
  IF IsUndefined(s.sender)
  THEN [status |-> "MissingSender", invoked |-> 0, signal |-> s, ret |-> RetNone]
  ELSE LET v == superVerify(s, verdict) IN
       IF v.status # "ok"
       THEN [status |-> v.status, invoked |-> 1, signal |-> v.signal, ret |-> RetNone]
       ELSE IF ~StrictEq(v.signal.sender, authorAlias(v.signal))
       THEN [status |-> "SenderMismatch", invoked |-> 1, signal |-> v.signal,
             ret |-> RetNone]
       ELSE [status |-> "ok", invoked |-> 1, signal |-> v.signal, ret |-> RetThis]

(***************************************************************************)
(* Construction and verification (SpecCodec): a signal is built from a     *)
(* claim or from a payload, a second one may be rebuilt from the payload   *)
(* of the first, and the first may be verified.                            *)
(***************************************************************************)
Alphabet == {"a", " ", ">"}

\* the strings of at most n characters
Strings(n) == UNION {[1..k -> Alphabet] : k \in 0..n}

Senders == {Undefined} \cup {Str(cs) : cs \in Strings(MaxFieldLen)}

Actions == {Undefined} \cup {Str(cs) : cs \in Strings(MaxFieldLen)}

Epochs == {Undefined, Num(3), Num(12), Str(<<"3">>), Str(<<" ", ">">>)}

Blocks == {Undefined, Str(<<"k">>), Str(<<" ", ">">>)}

Claims ==
  {Claim(sender, action, epoch, block) :
     sender \in Senders, action \in Actions, epoch \in Epochs, block \in Blocks}

Segments == {<<>>, <<"a">>, <<"b">>}

RECURSIVE Join(_)
Join(segs) ==
  IF Len(segs) = 1 THEN segs[1]
  ELSE segs[1] \o Separator \o Join(Tail(segs))

\* the consensus strings of received payloads: none, empty, or 1..MaxSegments segments
Consensuses ==
  {Undefined} \cup
  {Str(Join(segs)) : segs \in UNION {[1..k -> Segments] : k \in 1..MaxSegments}}

Payloads ==
  {[consensus |-> c, params |-> p] :
     c \in Consensuses,
     p \in {NoParams, [sig |-> Str(<<"s">>), memo |-> Str(<<"x">>)]}}

CodecInit ==
  /\ signal = Blank
  /\ peers = <<>>
  /\ calls = <<>>
  /\ outcome = NoOutcome
  /\ order = NoOrder
  /\ during = NoOverlap

NewFromClaim(signalParams) ==
  LET r == Constructor(NoPayload, signalParams, 1) IN
  /\ signal' = r.signal
  /\ outcome' = Done("newFromClaim", r.status, 0, "none", RetNone, NoParams)
  /\ UNCHANGED <<peers, calls, order>>

NewFromPayload(received) ==
  LET r == Constructor(received, NoClaim, 1) IN
  /\ signal' = r.signal
  /\ outcome' = Done("newFromPayload", r.status, 0, "none", RetNone, NoParams)
  /\ UNCHANGED <<peers, calls, order>>

\* new Signal(first.payload)
Rebuild ==
  /\ outcome.op \in {"newFromClaim", "newFromPayload"}
  /\ outcome.status = "ok"
  /\ peers = <<>>
  /\ peers' = <<Constructor(payload(signal), NoClaim, 2).signal>>
  /\ UNCHANGED <<signal, calls, outcome, order>>

Verify(verdict) ==
  LET r == verify(signal, verdict) IN
  /\ outcome.op \in {"newFromClaim", "newFromPayload"}
  /\ outcome.status = "ok"
  /\ signal' = r.signal
  /\ outcome' = Done("verify", r.status, r.invoked,
                     IF r.invoked = 0 THEN "none"
                     ELSE IF verdict.valid THEN "verified" ELSE "invalid",
                     r.ret, signal.params)
  /\ UNCHANGED <<peers, calls, order>>

VerifySync(verdict) ==
  LET r == verifySync(signal, verdict) IN
  /\ outcome.op \in {"newFromClaim", "newFromPayload"}
  /\ outcome.status = "ok"
  /\ signal' = r.signal
  /\ outcome' = Done("verifySync", r.status, r.invoked,
                     IF r.invoked = 0 THEN "none"
                     ELSE IF verdict.valid THEN "verified" ELSE "invalid",
                     r.ret, signal.params)
  /\ UNCHANGED <<peers, calls, order>>

CodecNext ==
  \/ /\ outcome.op = "none"
     /\ \E signalParams \in Claims : NewFromClaim(signalParams)
     /\ UNCHANGED during
  \/ /\ outcome.op = "none"
     /\ \E received \in Payloads : NewFromPayload(received)
     /\ UNCHANGED during
  \/ Rebuild /\ UNCHANGED during
  \/ \E verdict \in Verdicts : Verify(verdict) /\ UNCHANGED during
  \/ \E verdict \in Verdicts : VerifySync(verdict) /\ UNCHANGED during

SpecCodec == CodecInit /\ [][CodecNext]_vars

(***************************************************************************)
(* Properties of construction and verification (SpecCodec).                *)
(***************************************************************************)
Contains(cs, sep) == IndexOf(cs, sep) # 0

EndsWith(cs, tail) ==
  Len(cs) >= Len(tail) /\ SubSeq(cs, Len(cs) - Len(tail) + 1, Len(cs)) = tail

AllDefined(s) ==
  /\ ~IsUndefined(s.sender)
  /\ ~IsUndefined(s.action)
  /\ ~IsUndefined(s.epoch)
  /\ ~IsUndefined(s.block)

NoneDefined(s) ==
  /\ IsUndefined(s.sender)
  /\ IsUndefined(s.action)
  /\ IsUndefined(s.epoch)
  /\ IsUndefined(s.block)

\* C4: a construction from explicit claim parameters succeeds only if sender,
\* action, epoch and block are all present; otherwise it fails with
\* MissingRequiredParam and no consensus string is built.
MissingRequiredRejected ==
  outcome.op = "newFromClaim"
    => IF AllDefined(signal)
       THEN outcome.status = "ok"
       ELSE outcome.status = "MissingRequiredParam" /\ IsUndefined(signal.consensus)

\* the four fields of a valid claim: all present, none containing " > "
ValidFields(s) ==
  /\ AllDefined(s)
  /\ \A v \in {s.sender, s.action, s.epoch, s.block} :
       ~Contains(ToString(v), Separator)

\* C7 as stated: a signal rebuilt from the payload of a signal made from a
\* valid claim has sender, action, epoch and block equal to the claim's.
RoundTripExact ==
  (outcome.op = "newFromClaim" /\ outcome.status = "ok" /\ peers # <<>>
     /\ ValidFields(signal))
    => /\ StrictEq(peers[1].sender, signal.sender)
       /\ StrictEq(peers[1].action, signal.action)
       /\ StrictEq(peers[1].epoch, signal.epoch)
       /\ StrictEq(peers[1].block, signal.block)

\* C7 as amended: when moreover none of sender, action and epoch ends with
\* " >", the rebuilt signal has the string forms of the four values (a string
\* field exactly, a numeric epoch as its decimal string).
RoundTripStrings ==
  (outcome.op = "newFromClaim" /\ outcome.status = "ok" /\ peers # <<>>
     /\ ValidFields(signal)
     /\ \A v \in {signal.sender, signal.action, signal.epoch} :
          ~EndsWith(ToString(v), <<" ", ">">>))
    => /\ peers[1].sender = Str(ToString(signal.sender))
       /\ peers[1].action = Str(ToString(signal.action))
       /\ peers[1].epoch = Str(ToString(signal.epoch))
       /\ peers[1].block = Str(ToString(signal.block))
       /\ peers[1].consensus = signal.consensus

\* a claim with a numeric epoch and fields made of separator characters, rebuilt
RoundTripStringsWitness ==
  /\ outcome.op = "newFromClaim"
  /\ peers # <<>>
  /\ signal.sender = Str(<<">", " ">>)
  /\ signal.action = Str(<<" ", "a">>)
  /\ signal.epoch = Num(12)
  /\ signal.block = Str(<<" ", ">">>)
  /\ peers[1].epoch = Str(<<"1", "2">>)

\* C8: a payload whose consensus string does not split into exactly four
\* segments is rejected or leaves sender, action, epoch and block all
\* undefined, and the populated fields of a signal re-join to its consensus.
MalformedConsensusRejected ==
  (outcome.op = "newFromPayload" /\ Truthy(signal.consensus))
    => /\ (Len(Split(signal.consensus.s, Separator)) # 4 /\ outcome.status = "ok")
            => NoneDefined(signal)
       /\ AllDefined(signal)
            => Compose(signal.sender, signal.action, signal.epoch, signal.block)
                 = signal.consensus.s

Verifications == {"verify", "verifySync"}

\* C9: verify and verifySync return the signal only if sender is defined, the
\* collaborator verified the signature and sender equals the recovered alias;
\* with sender undefined they fail with MissingSender without invoking the
\* collaborator, and with a verified signature of another alias they fail
\* with SenderMismatch.
VerifyChecksSender ==
  outcome.op \in Verifications
    => /\ outcome.status = "ok"
            => /\ outcome.ret = RetThis
               /\ ~IsUndefined(signal.sender)
               /\ outcome.invoked = 1
               /\ outcome.answer = "verified"
               /\ StrictEq(signal.sender, authorAlias(signal))
       /\ IsUndefined(signal.sender)
            => outcome.status = "MissingSender" /\ outcome.invoked = 0
       /\ (outcome.answer = "verified"
             /\ ~StrictEq(signal.sender, authorAlias(signal)))
            => outcome.status = "SenderMismatch"

\* a verified signature whose signer is not the declared sender
VerifyChecksSenderWitness ==
  /\ outcome.op \in Verifications
  /\ outcome.answer = "verified"
  /\ signal.sender = Str(<<"a">>)
  /\ authorAlias(signal) = Str(<<"b">>)
  /\ outcome.status = "SenderMismatch"

(***************************************************************************)
(* Comparator.                                                             *)
(***************************************************************************)
\* a - b on what the getters return
Minus(a, b) ==
  IF a.t = "number" /\ b.t = "number" THEN Num(a.n - b.n) ELSE NaN

\* compare of the base class: the tiebreak on the messages' identities
superCompare(this, that) ==
  IF this.uuid < that.uuid THEN Num(-1)
  ELSE IF this.uuid > that.uuid THEN Num(1)
  ELSE Num(0)

\* variant: equal block numbers are ordered by timestamp before identity
compareTimeTiebreak(this, that) ==
  IF ~(located(this) /\ located(that))
  THEN [status |-> "NotLocated", value |-> Undefined]
  ELSE LET b0 == blockNumber(this)
           b1 == blockNumber(that)
           byTime == IsUndefined(b0) \/ IsUndefined(b1) \/ StrictEq(b0, b1)
           i0 == IF byTime THEN timestamp(this) ELSE b0
           i1 == IF byTime THEN timestamp(that) ELSE b1
       IN [status |-> "ok",
           value |-> IF StrictEq(i0, i1) THEN superCompare(this, that)
                     ELSE Minus(i0, i1)]

\* this.compare(that)
compare(this, that) ==
  IF ~(located(this) /\ located(that))
  THEN [status |-> "NotLocated", value |-> Undefined]
  ELSE LET b0 == blockNumber(this)
           b1 == blockNumber(that)
           byTime == IsUndefined(b0) \/ IsUndefined(b1)
           i0 == IF byTime THEN timestamp(this) ELSE b0
           i1 == IF byTime THEN timestamp(that) ELSE b1
       IN [status |-> "ok",
           value |-> IF StrictEq(i0, i1) THEN superCompare(this, that)
                     ELSE Minus(i0, i1)]

(***************************************************************************)
(* Comparisons among three signals (SpecCompare): each holds any mix of    *)
(* blockNumber and timestamp, and the comparisons made are recorded.       *)
(***************************************************************************)
\* the stores the compared signals may hold
Locations ==
  {Merge(p, q) :
     p \in {NoParams} \cup {One("blockNumber", Num(b)) : b \in 1..MaxBlock},
     q \in {NoParams} \cup {One("timestamp", Num(t)) : t \in 1..MaxTime}}

Placed(params, id) ==
  Constructor([consensus |-> Undefined, params |-> params], NoClaim, id).signal

\* the signals compared, by position
All == <<signal>> \o peers

CompareInit ==
  /\ \E p1 \in Locations, p2 \in Locations, p3 \in Locations :
       /\ signal = Placed(p1, 1)
       /\ peers = <<Placed(p2, 2), Placed(p3, 3)>>
  /\ calls = <<>>
  /\ outcome = NoOutcome
  /\ order = NoOrder
  /\ during = NoOverlap

\* All[i].compare(All[j])
Compare(i, j) ==
  LET r == compare(All[i], All[j]) IN
  /\ <<i, j>> \notin DOMAIN order
  /\ order' = [p \in DOMAIN order \cup {<<i, j>>} |->
                 IF p = <<i, j>> THEN r ELSE order[p]]
  /\ outcome' = Done("compare", r.status, 0, "none", RetNone, All[i].params)
  /\ UNCHANGED <<signal, peers, calls>>

CompareNext ==
  \E i \in 1..3, j \in 1..3 : i # j /\ Compare(i, j) /\ UNCHANGED during

SpecCompare == CompareInit /\ [][CompareNext]_vars

(***************************************************************************)
(* Properties of the comparator (SpecCompare).                             *)
(***************************************************************************)
Negative(v) == v.t = "number" /\ v.n < 0

Positive(v) == v.t = "number" /\ v.n > 0

\* the signal holds a blockNumber or a timestamp
HasLocation(s) ==
  \/ ~IsUndefined(Get(s.params, "blockNumber"))
  \/ ~IsUndefined(Get(s.params, "timestamp"))

Ordered(i, j) == <<i, j>> \in DOMAIN order /\ order[<<i, j>>].status = "ok"

\* C3: over located signals compare is a strict total order: the results of
\* a, b and b, a are non-zero with opposite signs, and a before b and b before
\* c imply a before c.
CompareStrictTotalOrder ==
  /\ \A i \in 1..3, j \in 1..3 :
       (i # j /\ Ordered(i, j) /\ Ordered(j, i))
         => \/ Negative(order[<<i, j>>].value) /\ Positive(order[<<j, i>>].value)
            \/ Positive(order[<<i, j>>].value) /\ Negative(order[<<j, i>>].value)
  /\ \A i \in 1..3, j \in 1..3, k \in 1..3 :
       (Ordered(i, j) /\ Ordered(j, k) /\ Ordered(i, k)
          /\ Negative(order[<<i, j>>].value) /\ Negative(order[<<j, k>>].value))
         => Negative(order[<<i, k>>].value)

\* C10: compare fails with NotLocated whenever one of the two signals holds
\* neither blockNumber nor timestamp, and returns a value only when both hold
\* one.
CompareNeedsLocated ==
  \A p \in DOMAIN order :
    IF HasLocation(All[p[1]]) /\ HasLocation(All[p[2]])
    THEN order[p].status = "ok" /\ ~IsUndefined(order[p].value)
    ELSE order[p].status = "NotLocated" /\ IsUndefined(order[p].value)

\* both outcomes: a pair with an unlocated signal refused, a located pair ordered
CompareNeedsLocatedWitness ==
  /\ <<1, 2>> \in DOMAIN order
  /\ <<1, 3>> \in DOMAIN order
  /\ order[<<1, 2>>].status = "NotLocated"
  /\ HasLocation(All[1])
  /\ ~HasLocation(All[2])
  /\ order[<<1, 3>>].status = "ok"
  /\ IsUndefined(Get(All[1].params, "timestamp"))
  /\ IsUndefined(Get(All[3].params, "blockNumber"))

\* the pair was compared and both signals hold the same blockNumber
EqualBlocks(p) ==
  /\ p \in DOMAIN order
  /\ order[p].status = "ok"
  /\ ~IsUndefined(blockNumber(All[p[1]]))
  /\ StrictEq(blockNumber(All[p[1]]), blockNumber(All[p[2]]))

\* both signals of the pair hold a timestamp, and the two differ
TimestampsDiffer(p) ==
  /\ ~IsUndefined(timestamp(All[p[1]]))
  /\ ~IsUndefined(timestamp(All[p[2]]))
  /\ ~StrictEq(timestamp(All[p[1]]), timestamp(All[p[2]]))

\* C11 as stated: with equal blockNumber and different timestamps compare
\* orders the two signals by timestamp ascending; the identity comparator
\* decides only when the timestamps are equal too, and the result is non-zero.
EqualBlocksOrderedByTimestamp ==
  \A p \in DOMAIN order :
    EqualBlocks(p)
      => /\ order[p].value.t = "number" /\ order[p].value.n # 0
         /\ IF TimestampsDiffer(p)
            THEN order[p].value
                   = Minus(timestamp(All[p[1]]), timestamp(All[p[2]]))
            ELSE order[p].value = superCompare(All[p[1]], All[p[2]])

\* C11 as amended: with equal blockNumber compare does not look at the
\* timestamps: the result is the identity comparator's, whatever the
\* timestamps are, and it is non-zero for two different signals.
EqualBlocksOrderedByIdentity ==
  \A p \in DOMAIN order :
    EqualBlocks(p)
      => /\ order[p].value = superCompare(All[p[1]], All[p[2]])
         /\ order[p].value.t = "number" /\ order[p].value.n # 0

\* equal blockNumber, the first signal the later by timestamp, yet ordered first
EqualBlocksOrderedByIdentityWitness ==
  /\ EqualBlocks(<<1, 2>>)
  /\ timestamp(All[1]) = Num(2)
  /\ timestamp(All[2]) = Num(1)
  /\ Negative(order[<<1, 2>>].value)

\* the signed artifact and the four fields read from it
Signed(s) == <<s.consensus, s.sender, s.action, s.epoch, s.block>>

\* C12: no addParams, clearLocation, clearCustomParams, locate or locateSync
\* step changes the consensus string or sender, action, epoch and block.
SignedFieldsFrozen == [][Signed(signal)' = Signed(signal)]_vars

\* the signal built from the claim a, v, 3, k after a failed resolution that
\* followed writes to its store
SignedFieldsFrozenWitness ==
  /\ outcome.op \in Resolutions
  /\ outcome.answer = "notfound"
  /\ ~IsUndefined(Get(outcome.pre, "blockNumber"))
  /\ "memo" \in Keys(signal.params)
  /\ signal.epoch = Num(3)
  /\ signal.consensus = Str(Compose(Str(<<"a">>), Str(<<"v">>), Num(3), Str(<<"k">>)))

\* C16: the keys of payload._params_ are exactly sig, alias, world, timestamp
\* and blockNumber, each with the value the store holds for it (undefined when
\* it holds none), so no custom key of the store appears in the payload.
PayloadStandardOnly ==
  /\ Keys(payload(signal).params) = StandardKeys
  /\ \A k \in StandardKeys : payload(signal).params[k] = Get(signal.params, k)
  /\ Keys(payload(signal).params) \cap Keys(customParams(signal.params)) = {}
  /\ payload(signal).consensus = signal.consensus

\* a store with a custom key added by addParams next to a resolved location
PayloadStandardOnlyWitness ==
  /\ outcome.op = "addParams"
  /\ Get(signal.params, "memo") = Str(<<"y">>)
  /\ "memo" \notin Keys(payload(signal).params)
  /\ payload(signal).params["blockNumber"] = Num(2)
  /\ IsUndefined(payload(signal).params["world"])

Temporal == {"timestamp", "blockNumber"}

\* the two stores agree on every key other than timestamp and blockNumber
SameOthers(p, q) ==
  /\ Keys(p) \ Temporal = Keys(q) \ Temporal
  /\ \A k \in Keys(p) \ Temporal : p[k] = q[k]

\* C14: a resolution that completes right after another one, both having found
\* the same block info, leaves blockNumber, timestamp and every other
\* parameter as the first one left them.
SameResultIdempotent ==
  [][(/\ outcome.op \in Resolutions
      /\ outcome.status = "ok"
      /\ outcome.answer = "found"
      /\ outcome'.answer = "found"
      /\ outcome'.ret = outcome.ret
      /\ \/ \E info \in ClockInfos : LocateSync(TRUE, info)
         \/ \E i \in 1..Len(calls), info \in ChainInfos : LocateResume(i, info))
       => signal'.params = signal.params]_vars

\* a second resolution that found what the store already held, other keys kept
SameResultIdempotentWitness ==
  /\ outcome.op \in Resolutions
  /\ outcome.answer = "found"
  /\ Get(outcome.pre, "blockNumber") = outcome.ret.blockNumber
  /\ Get(outcome.pre, "timestamp") = outcome.ret.timestamp
  /\ signal.params = outcome.pre
  /\ "memo" \in Keys(signal.params)

\* C15: a resolution call that passed its checks queried its data source
\* exactly once; on a found block the store holds the pair merged into what it
\* held and the pair is returned, on "not found" the location is cleared and
\* the signal itself is returned; a call that failed a check queried nothing.
ResolutionOnce ==
  /\ \A i \in 1..Len(calls) : calls[i].invoked = 1
  /\ outcome.op \in Resolutions
       => CASE outcome.status = "ok" /\ outcome.answer = "found" ->
                 /\ outcome.invoked = 1
                 /\ outcome.ret.kind = "params"
                 /\ ~IsUndefined(outcome.ret.blockNumber)
                 /\ ~IsUndefined(outcome.ret.timestamp)
                 /\ Temporal \subseteq Keys(signal.params)
                 /\ signal.params["blockNumber"] = outcome.ret.blockNumber
                 /\ signal.params["timestamp"] = outcome.ret.timestamp
                 /\ SameOthers(signal.params, outcome.pre)
            [] outcome.status = "ok" /\ outcome.answer # "found" ->
                 /\ outcome.invoked = 1
                 /\ outcome.answer = "notfound"
                 /\ outcome.ret = RetThis
                 /\ Keys(signal.params) \cap Temporal = {}
                 /\ SameOthers(signal.params, outcome.pre)
            [] OTHER ->
                 /\ outcome.invoked = 0
                 /\ outcome.ret = RetNone
                 /\ signal.params = outcome.pre

\* an async locate that found a block and replaced the location held before
ResolutionOnceWitness ==
  /\ outcome.op = "locate"
  /\ outcome.status = "ok"
  /\ outcome.invoked = 1
  /\ outcome.ret.kind = "params"
  /\ outcome.ret.blockNumber = Num(2)
  /\ Get(outcome.pre, "blockNumber") = Num(1)
  /\ signal.params["blockNumber"] = Num(2)

\* what a resolution call does when a check fails: it raises, it asks no data
\* source and it leaves the signal and the suspended calls alone
Refused(status) ==
  /\ outcome'.status = status
  /\ outcome'.invoked = 0
  /\ outcome'.answer = "none"
  /\ signal' = signal
  /\ calls' = calls

\* C17: a resolution call without a collaborator fails with
\* MissingCollaborator, also when block is undefined too, and one with a
\* collaborator and an undefined block fails with MissingAnchor; neither
\* queries the data source or changes a parameter.
ChecksRefuse ==
  [][\A earth \in BOOLEAN :
       LET called == /\ Len(calls') >= Len(calls)
                     /\ outcome'.op \in Resolutions \/ Len(calls') > Len(calls)
                     /\ \/ Locate(earth)
                        \/ \E info \in ClockInfos : LocateSync(earth, info)
       IN
       /\ ~earth => (Refused("MissingCollaborator") \/ ~called)
       /\ (earth /\ IsUndefined(signal.block))
            => (Refused("MissingAnchor") \/ ~called)
       /\ (earth /\ ~IsUndefined(signal.block))
            => \/ Len(calls') = Len(calls) + 1
               \/ outcome'.status = "ok" /\ outcome'.invoked = 1
               \/ ~called
    ]_vars

\* a located signal without block refused for the missing collaborator
ChecksRefuseWitness ==
  /\ outcome.op \in Resolutions
  /\ outcome.status = "MissingCollaborator"
  /\ IsUndefined(signal.block)
  /\ ~IsUndefined(Get(signal.params, "timestamp"))
  /\ signal.params = outcome.pre

(***************************************************************************)
(* The located getter and the resolution calls.                            *)
(***************************************************************************)

\* C13: located is true exactly when the timestamp or the blockNumber getter
\* is defined; and while resolution calls are the only operations applied,
\* both are undefined only if no resolution call has got an answer yet or the
\* last one that did got "not found": after one that got "found" the signal
\* is located.
LocatedAfterFound ==
  /\ located(signal) <=> (~IsUndefined(timestamp(signal)) \/ ~IsUndefined(blockNumber(signal)))
  /\ (/\ IsUndefined(timestamp(signal))
      /\ IsUndefined(blockNumber(signal))
      /\ outcome.resolved # "other")
       => outcome.resolved \in {"none", "notfound"}
  /\ outcome.resolved = "found" => located(signal)

\* a resolution got "found" and a later one raised: the signal is still
\* located, and an async locate is still suspended
LocatedAfterFoundWitness ==
  /\ outcome.op \in Resolutions
  /\ outcome.status = "MissingCollaborator"
  /\ outcome.resolved = "found"
  /\ Len(calls) > 0
  /\ located(signal)

(***************************************************************************)
(* Operations interleaved with suspended async locate calls.  Each method  *)
(* body, and the part of locate after its await, runs to completion on the *)
(* single JavaScript thread, so an operation's read and write of _params_  *)
(* are one step; what can interleave are whole operations between the call *)
(* of a locate and its resumption.  The life of a signal again, with       *)
(* `during` keeping what was written in between.                           *)
(***************************************************************************)

\* the parameter sets merged while a locate is suspended
Writes ==
  {One("memo", Str(<<"x">>)), One("memo", Str(<<"y">>)),
   One("blockNumber", Str(<<"2">>))}

AddParamsDuring(obj) ==
  /\ AddParams(obj)
  /\ during' = [open |-> Merged(during.open, obj), closed |-> Unwritten]

ClearLocationDuring ==
  /\ ClearLocation
  /\ during' = [open |-> Relocated(during.open), closed |-> Unwritten]

LocateSyncDuring(earth, info) ==
  /\ LocateSync(earth, info)
  /\ during' = [open |-> IF outcome'.status = "ok" THEN Relocated(during.open)
                         ELSE during.open,
                closed |-> Unwritten]

LocateDuring(earth) ==
  /\ Locate(earth)
  /\ during' = IF Len(calls') > Len(calls)
               THEN [during EXCEPT !.open = Append(@, Unwritten)]
               ELSE [during EXCEPT !.closed = Unwritten]

LocateResumeDuring(i, info) ==
  /\ LocateResume(i, info)
  /\ during' = [open |-> Relocated(SubSeq(during.open, 1, i - 1)
                                     \o SubSeq(during.open, i + 1, Len(during.open))),
                closed |-> during.open[i]]

InterleaveNext ==
  \/ \E obj \in Writes : AddParamsDuring(obj)
  \/ ClearLocationDuring
  \/ \E earth \in BOOLEAN, info \in ClockInfos : LocateSyncDuring(earth, info)
  \/ \E earth \in BOOLEAN : LocateDuring(earth)
  \/ \E i \in 1..MaxInflight, info \in ChainInfos : LocateResumeDuring(i, info)

SpecInterleave == Init /\ [][InterleaveNext]_vars

\* C18: when operations are interleaved with a suspended async locate, the
\* location after a resolution call completes is that call's outcome (its
\* pair if found, cleared if not found) whatever location was written while
\* it was suspended, and the parameters other than timestamp and blockNumber
\* written while it was suspended are kept with the values last written.
LastResolutionWins ==
  /\ Len(during.open) = Len(calls)
  /\ (outcome.op \in Resolutions /\ outcome.status = "ok") =>
       /\ IF outcome.answer = "found"
          THEN /\ Get(signal.params, "blockNumber") = outcome.ret.blockNumber
               /\ Get(signal.params, "timestamp") = outcome.ret.timestamp
               /\ ~IsUndefined(outcome.ret.blockNumber)
               /\ ~IsUndefined(outcome.ret.timestamp)
          ELSE Keys(signal.params) \cap Temporal = {}
       /\ \A k \in Keys(during.closed.others) :
            Get(signal.params, k) = during.closed.others[k]

\* a locate resumed with "not found" after a location and a memo were
\* written while it was suspended: the location is gone, the memo is kept
LastResolutionWinsWitness ==
  /\ outcome.op = "locate"
  /\ outcome.status = "ok"
  /\ outcome.answer = "notfound"
  /\ during.closed.location
  /\ ~IsUndefined(Get(outcome.pre, "blockNumber"))
  /\ "memo" \in Keys(during.closed.others)
  /\ Get(signal.params, "memo") = Str(<<"y">>)
  /\ Keys(signal.params) \cap Temporal = {}

====
